---- MODULE Spec2Model ----
(***************************************************************************)
(* Model of src/app/page.tsx: the keyword classifier and reply composer    *)
(* (generateResponse), and the Home component with its event handlers, the *)
(* speak-on-new-assistant-message effect, and the two platform resources   *)
(* it drives (SpeechRecognition and speechSynthesis).                      *)
(*                                                                         *)
(* Text is a sequence of one-character strings, so that trim, toLowerCase, *)
(* includes and the isQuestion regular expression are computed on the      *)
(* characters.  A composed sentence is a sequence of tokens whose last     *)
(* token is its closing punctuation mark, so endsWith("?") looks at it.    *)
(***************************************************************************)
EXTENDS Integers, Sequences, FiniteSets

----------------------------------------------------------------------------
(* Bounds of the model. *)

\* accepted submissions per run of the component
MaxSubmits == 2

\* length of the history handed to generateResponse in SpecCompose
MaxPrior == 2

----------------------------------------------------------------------------
(* Strings. *)

WhiteSpace == {" ", "\t", "\n"}

UpperCase ==
    <<"A","B","C","D","E","F","G","H","I","J","K","L","M",
      "N","O","P","Q","R","S","T","U","V","W","X","Y","Z">>

LowerCase ==
    <<"a","b","c","d","e","f","g","h","i","j","k","l","m",
      "n","o","p","q","r","s","t","u","v","w","x","y","z">>

Digits == {"0","1","2","3","4","5","6","7","8","9"}

\* String.prototype.toLowerCase, one character
lowerChar(c) ==
    IF \E i \in DOMAIN UpperCase : UpperCase[i] = c
    THEN LowerCase[CHOOSE i \in DOMAIN UpperCase : UpperCase[i] = c]
    ELSE c

\* String.prototype.toLowerCase
toLowerCase(s) ==
    [i \in DOMAIN s |-> lowerChar(s[i])]

\* the text as it came, where the call of trim() is left out
untrimmed(s) ==
    s

\* String.prototype.trim: drops the leading and the trailing white space
trim(s) ==
    LET solid == {i \in DOMAIN s : s[i] \notin WhiteSpace}
    IN  IF solid = {} THEN <<>>
        ELSE LET lo == CHOOSE i \in solid : \A j \in solid : i <= j
                 hi == CHOOSE i \in solid : \A j \in solid : j <= i
             IN  SubSeq(s, lo, hi)

\* String.prototype.includes
includes(haystack, needle) ==
    \E k \in 0..(Len(haystack) - Len(needle)) :
        \A j \in 1..Len(needle) : haystack[k + j] = needle[j]

\* a word character of the regular expression (\w), which \b tells from the rest
isWordChar(c) ==
    \/ \E i \in DOMAIN LowerCase : LowerCase[i] = c
    \/ \E i \in DOMAIN UpperCase : UpperCase[i] = c
    \/ c \in Digits
    \/ c = "_"

----------------------------------------------------------------------------
(* The keyword classifier. *)

EmotionKeywords ==
    [ stress |-> <<
        <<"s","t","r","e","s","s">>,   \* stress
        <<"s","t","r","e","s","s","e","d">>,   \* stressed
        <<"o","v","e","r","w","h","e","l","m">>,   \* overwhelm
        <<"o","v","e","r","w","h","e","l","m","e","d">>,   \* overwhelmed
        <<"a","n","x","i","o","u","s">>,   \* anxious
        <<"a","n","x","i","e","t","y">>,   \* anxiety
        <<"p","r","e","s","s","u","r","e">>,   \* pressure
        <<"w","o","r","r","i","e","d">>,   \* worried
        <<"p","a","n","i","c">>   \* panic
    >>,
      confusion |-> <<
        <<"c","o","n","f","u","s","e","d">>,   \* confused
        <<"u","n","c","l","e","a","r">>,   \* unclear
        <<"n","o","t"," ","s","u","r","e">>,   \* not sure
        <<"d","o","n","'","t"," ","k","n","o","w">>,   \* don't know
        <<"l","o","s","t">>,   \* lost
        <<"u","n","s","u","r","e">>,   \* unsure
        <<"u","n","c","e","r","t","a","i","n">>   \* uncertain
    >>,
      decision |-> <<
        <<"d","e","c","i","d","e">>,   \* decide
        <<"d","e","c","i","s","i","o","n">>,   \* decision
        <<"c","h","o","o","s","e">>,   \* choose
        <<"c","h","o","i","c","e">>,   \* choice
        <<"p","i","c","k">>,   \* pick
        <<"o","p","t","i","o","n","s">>,   \* options
        <<"o","p","t","i","o","n">>,   \* option
        <<"v","s">>,   \* vs
        <<"v","e","r","s","u","s">>,   \* versus
        <<"t","r","a","d","e","o","f","f">>,   \* tradeoff
        <<"t","r","a","d","e","-","o","f","f">>   \* trade-off
    >>,
      planning |-> <<
        <<"p","l","a","n">>,   \* plan
        <<"t","i","m","e","l","i","n","e">>,   \* timeline
        <<"s","c","h","e","d","u","l","e">>,   \* schedule
        <<"o","r","g","a","n","i","z","e">>,   \* organize
        <<"n","e","x","t"," ","s","t","e","p">>,   \* next step
        <<"r","o","a","d","m","a","p">>,   \* roadmap
        <<"m","a","p">>,   \* map
        <<"a","r","r","a","n","g","e">>   \* arrange
    >>,
      blockers |-> <<
        <<"s","t","u","c","k">>,   \* stuck
        <<"b","l","o","c","k","e","d">>,   \* blocked
        <<"c","a","n","'","t">>,   \* can't
        <<"c","a","n","n","o","t">>,   \* cannot
        <<"p","r","o","b","l","e","m">>,   \* problem
        <<"i","s","s","u","e">>,   \* issue
        <<"b","a","r","r","i","e","r">>,   \* barrier
        <<"h","a","n","g","u","p">>   \* hangup
    >>,
      timeline |-> <<
        <<"t","o","d","a","y">>,   \* today
        <<"t","o","n","i","g","h","t">>,   \* tonight
        <<"t","o","m","o","r","r","o","w">>,   \* tomorrow
        <<"d","e","a","d","l","i","n","e">>,   \* deadline
        <<"d","u","e">>,   \* due
        <<"w","e","e","k">>,   \* week
        <<"s","o","o","n">>,   \* soon
        <<"u","r","g","e","n","t">>,   \* urgent
        <<"r","u","s","h">>   \* rush
    >>,
      assumptions |-> <<
        <<"o","b","v","i","o","u","s","l","y">>,   \* obviously
        <<"c","l","e","a","r","l","y">>,   \* clearly
        <<"m","u","s","t"," ","b","e">>,   \* must be
        <<"h","a","s"," ","t","o">>,   \* has to
        <<"n","o"," ","w","a","y">>,   \* no way
        <<"a","l","w","a","y","s">>,   \* always
        <<"n","e","v","e","r">>   \* never
    >> ]

\* const normalize = (value) => value.trim().toLowerCase()
normalize(value) ==
    toLowerCase(trim(value))

\* const containsKeyword = (haystack, needles) => needles.some(includes)
containsKeyword(haystack, needles) ==
    \E n \in DOMAIN needles : includes(haystack, needles[n])

InterrogativeWords ==
    { <<"h","o","w">>,
      <<"w","h","a","t">>,
      <<"w","h","y">>,
      <<"s","h","o","u","l","d">>,
      <<"c","o","u","l","d">>,
      <<"w","o","u","l","d">>,
      <<"w","h","e","n">>,
      <<"w","h","e","r","e">>,
      <<"i","s">>,
      <<"a","r","e">>,
      <<"d","o">>,
      <<"d","o","e","s">>,
      <<"c","a","n">> }

\* /\?|^\s*(how|what|...|can)\b/.test(lowered)
isQuestionTest(lowered) ==
    \/ includes(lowered, <<"?">>)
    \/ LET solid == {i \in DOMAIN lowered : lowered[i] \notin WhiteSpace}
           from  == IF solid = {} THEN Len(lowered) + 1
                    ELSE CHOOSE i \in solid : \A j \in solid : i <= j
           rest  == SubSeq(lowered, from, Len(lowered))
       IN  \E w \in InterrogativeWords :
               /\ Len(w) <= Len(rest)
               /\ SubSeq(rest, 1, Len(w)) = w
               /\ \/ Len(rest) = Len(w)
                  \/ ~isWordChar(rest[Len(w) + 1])

\* the flags generateResponse computes from the user's text
classify(userMessage) ==
    LET text == normalize(userMessage)
    IN  [ stressed        |-> containsKeyword(text, EmotionKeywords.stress),
          confused        |-> containsKeyword(text, EmotionKeywords.confusion),
          decisionFocused |-> containsKeyword(text, EmotionKeywords.decision),
          planningFocused |-> containsKeyword(text, EmotionKeywords.planning),
          blockerPresent  |-> containsKeyword(text, EmotionKeywords.blockers),
          underDeadline   |-> containsKeyword(text, EmotionKeywords.timeline),
          assumptionFlag  |-> containsKeyword(text, EmotionKeywords.assumptions),
          isQuestion      |-> isQuestionTest(toLowerCase(userMessage)) ]

----------------------------------------------------------------------------
(* The reply composer. *)

StressOpening    == <<"I can hear the pressure in that", ".">>
ConfusionOpening == <<"Alright, let's bring this into focus", ".">>
DefaultOpening   == <<"Thanks for trusting me with that", ".">>

DecisionBody == <<"Let's line up the real choices and weigh what matters most", ".">>
PlanningBody == <<"We can map the next steps so each one feels manageable", ".">>
BlockerBody  == <<"We'll isolate the blocker and loosen it one piece at a time", ".">>
QuestionBody == <<"We'll reason through it so you can move forward with confidence", ".">>
DefaultBody  == <<"We'll walk through this steadily and keep it grounded", ".">>

AssumptionSentence ==
    <<"If any assumption feels shaky, we'll test it instead of leaning on it", ".">>
TimingSentence ==
    <<"We'll keep an eye on timing so clarity and pace move together", ".">>

DecisionFollowUp == <<"Which outcome matters most for you right now", "?">>
PlanningFollowUp == <<"What's the next step that would make everything else easier", "?">>
BlockerFollowUp  == <<"What's the single snag that feels heaviest at this moment", "?">>
QuestionFollowUp == <<"What facts do we already have that can anchor the answer", "?">>
DefaultFollowUp  == <<"What part would you like us to untangle first", "?">>

\* String.prototype.endsWith, for a one-character suffix
endsWith(sentence, mark) ==
    /\ sentence # <<>>
    /\ sentence[Len(sentence)] = mark

\* Array.prototype.join
RECURSIVE join(_, _)
join(sentences, separator) ==
    IF sentences = <<>> THEN <<>>
    ELSE IF Len(sentences) = 1 THEN sentences[1]
    ELSE sentences[1] \o separator \o join(Tail(sentences), separator)

\* the opening sentence with the two tests in the other order
confusionFirstOpening(f) ==
    IF f.confused THEN ConfusionOpening
    ELSE IF f.stressed THEN StressOpening
    ELSE DefaultOpening

\* the opening sentence
openingSentence(f) ==
    IF f.stressed THEN StressOpening
    ELSE IF f.confused THEN ConfusionOpening
    ELSE DefaultOpening

\* the body sentence
bodySentence(f) ==
    IF f.decisionFocused THEN DecisionBody
    ELSE IF f.planningFocused THEN PlanningBody
    ELSE IF f.blockerPresent THEN BlockerBody
    ELSE IF f.isQuestion THEN QuestionBody
    ELSE DefaultBody

\* const needsClarifier = confused || (... && exactly one user message)
needsClarifier(f, history) ==
    \/ f.confused
    \/ /\ ~f.isQuestion
       /\ ~f.decisionFocused
       /\ ~f.planningFocused
       /\ Cardinality({i \in DOMAIN history : history[i].role = "user"}) = 1

\* the follow-up with isQuestion tested first, unlike the body sentence
questionFirstFollowUp(f) ==
    IF f.isQuestion THEN QuestionFollowUp
    ELSE IF f.decisionFocused THEN DecisionFollowUp
    ELSE IF f.planningFocused THEN PlanningFollowUp
    ELSE IF f.blockerPresent THEN BlockerFollowUp
    ELSE DefaultFollowUp

\* let followUp = ...; reassigned by the first flag set
followUp(f) ==
    IF f.decisionFocused THEN DecisionFollowUp
    ELSE IF f.planningFocused THEN PlanningFollowUp
    ELSE IF f.blockerPresent THEN BlockerFollowUp
    ELSE IF f.isQuestion THEN QuestionFollowUp
    ELSE DefaultFollowUp

\* the follow-up pushed for needsClarifier alone, without the else branch
clarifierOnlyFollowUp(sentences, clarifier, question) ==
    IF clarifier THEN Append(sentences, question)
    ELSE sentences

\* if (needsClarifier) push; else if (the last sentence does not end with "?") push
pushFollowUp(sentences, clarifier, question) ==
    IF clarifier THEN Append(sentences, question)
    ELSE IF ~endsWith(sentences[Len(sentences)], "?") THEN Append(sentences, question)
    ELSE sentences

\* the sentences put together from the flags and the history
compose(f, history) ==
    LET opened   == <<openingSentence(f)>>
        bodied   == Append(opened, bodySentence(f))
        assumed  == IF f.assumptionFlag THEN Append(bodied, AssumptionSentence)
                    ELSE bodied
        timed    == IF f.underDeadline THEN Append(assumed, TimingSentence)
                    ELSE assumed
        finished == pushFollowUp(timed, needsClarifier(f, history), followUp(f))
    IN  join(finished, <<" ">>)

\* const generateResponse = (userMessage, history) => string
generateResponse(userMessage, history) ==
    compose(classify(userMessage), history)

----------------------------------------------------------------------------
(* The Home component and the platform resources it drives. *)

VARIABLES
    messages,             \* useState<Message[]>(INITIAL_MESSAGES)
    input,                \* useState("")
    listeningTranscript,  \* useState("")
    micSupported,         \* useState(false)
    status,               \* useState<StatusFlags>
    lastSpokenId,         \* useRef<string | null>(null)
    hasRecognition,       \* recognitionRef.current is a SpeechRecognition
    recognition,          \* phase of the SpeechRecognition object
    sessions,             \* capture sessions started and not yet ended
    hasSynthesis,         \* window.speechSynthesis exists
    synth,                \* window.speechSynthesis: its queue of utterances,
                          \* whether the head is being spoken, and whether a
                          \* cancelled utterance has yet to report its end
    readyPending,         \* the setTimeout that sets micSupported has yet to fire
    effectPending,        \* messages changed and the speak effect has yet to run
    spoken,               \* ids of the messages handed to speechSynthesis.speak
    failed,               \* a handler let an exception escape
    lastEvent,            \* the handler that ran last, with what it was given
    cText,                \* SpecCompose: the userMessage argument
    cHistory,             \* SpecCompose: the history argument
    cReply,               \* SpecCompose: the value returned
    cDone                 \* SpecCompose: generateResponse has returned

appVars ==
    <<messages, input, listeningTranscript, micSupported, status, lastSpokenId,
      hasRecognition, recognition, sessions, hasSynthesis, synth,
      readyPending, effectPending, spoken, failed,
      lastEvent>>

composeVars ==
    <<cText, cHistory, cReply, cDone>>

vars ==
    <<appVars, composeVars>>

WelcomeContent ==
    <<"Hi", ".", " ", "I'm here with you", ".", " ",
      "Whenever you're ready, tell me what's on your mind", ".">>

\* const INITIAL_MESSAGES: Message[]
INITIAL_MESSAGES ==
    <<[id |-> 0, role |-> "assistant", content |-> WelcomeContent]>>

\* const createMessage = (role, content) => Message.  The id (role, time and
\* six random characters in the source) is the number of messages created
\* before it, which no other message of the conversation has.
createMessage(role, content, existing) ==
    [id |-> Len(existing), role |-> role, content |-> content]

\* what the text field and the recognizer deliver
TypedBlank == <<" ", " ">>
TypedPlan  == <<" ", "P", "l", "a", "n", " ">>

TypedTexts ==
    {TypedBlank, TypedPlan}

InterimOnly ==
    <<[transcript |-> <<"s","t","u","c","k">>, isFinal |-> FALSE]>>
FinalThenInterim ==
    <<[transcript |-> <<"s","o","o","n"," ">>, isFinal |-> TRUE],
      [transcript |-> <<"s","t","u","c","k">>, isFinal |-> FALSE]>>
BlankFinal ==
    <<[transcript |-> <<" ">>, isFinal |-> TRUE]>>

ResultLists ==
    {InterimOnly, FinalThenInterim, BlankFinal}

\* the conversation may still grow
CanSubmit ==
    Len(messages) < 1 + 2 * MaxSubmits

Event(op, text, results) ==
    [op |-> op, text |-> text, results |-> results]

----------------------------------------------------------------------------
(* window.speechSynthesis and the handlers that use it. *)

\* window.speechSynthesis with nothing to say
EmptySynth ==
    [queue |-> <<>>, playing |-> FALSE, notice |-> FALSE]

\* new SpeechSynthesisUtterance(text), for the content of message; the id
\* tells the utterances of two messages of the same content apart
Utterance(message) ==
    [id |-> message.id, text |-> message.content]

\* speechSynthesis.cancel(): every utterance leaves the queue, and one that
\* was there reports it later through its onend or onerror
cancel(s) ==
    [queue |-> <<>>, playing |-> FALSE, notice |-> (s.notice \/ s.queue # <<>>)]

\* speechSynthesis.speak(utterance): the utterance joins the end of the queue
enqueue(s, utterance) ==
    [s EXCEPT !.queue = Append(s.queue, utterance)]

\* speechSynthesis.speaking: true while an utterance is being spoken; for an
\* utterance queued and not yet begun, platforms differ
SpeakingReadings ==
    IF ~hasSynthesis \/ synth.queue = <<>> THEN {FALSE}
    ELSE IF synth.playing THEN {TRUE}
    ELSE {TRUE, FALSE}

\* speak without the cancel() before it
speakWithoutCancel(s, utterance) ==
    enqueue(s, utterance)

\* speak: window.speechSynthesis.cancel(); window.speechSynthesis.speak(utterance)
cancelThenSpeak(s, utterance) ==
    enqueue(cancel(s), utterance)

\* const speak = useCallback((text) => ...), called with the content of message
speak(message) ==
    IF ~hasSynthesis
    THEN UNCHANGED <<synth, spoken>>
    ELSE /\ synth' = cancelThenSpeak(synth, Utterance(message))
         /\ spoken' = Append(spoken, message.id)

\* utterance.onstart: the head of the queue begins to be spoken
UtteranceStart ==
    /\ synth.queue # <<>>
    /\ ~synth.playing
    /\ synth' = [synth EXCEPT !.playing = TRUE]
    /\ status' = [status EXCEPT !.speaking = TRUE]
    /\ lastEvent' = Event("utterance.onstart", <<>>, <<>>)
    /\ UNCHANGED <<messages, input, listeningTranscript, micSupported, lastSpokenId,
                   hasRecognition, recognition, sessions, hasSynthesis,
                   readyPending, effectPending, spoken, failed>>

\* utterance.onend: the head of the queue has been spoken to its end
UtteranceEnd ==
    /\ synth.queue # <<>>
    /\ synth.playing
    /\ synth' = [synth EXCEPT !.queue = Tail(synth.queue), !.playing = FALSE]
    /\ status' = [status EXCEPT !.speaking = FALSE]
    /\ lastEvent' = Event("utterance.onend", <<>>, <<>>)
    /\ UNCHANGED <<messages, input, listeningTranscript, micSupported, lastSpokenId,
                   hasRecognition, recognition, sessions, hasSynthesis,
                   readyPending, effectPending, spoken, failed>>

\* utterance.onerror: the head of the queue could not be spoken
UtteranceError ==
    /\ synth.queue # <<>>
    /\ synth' = [synth EXCEPT !.queue = Tail(synth.queue), !.playing = FALSE]
    /\ status' = [status EXCEPT !.speaking = FALSE]
    /\ lastEvent' = Event("utterance.onerror", <<>>, <<>>)
    /\ UNCHANGED <<messages, input, listeningTranscript, micSupported, lastSpokenId,
                   hasRecognition, recognition, sessions, hasSynthesis,
                   readyPending, effectPending, spoken, failed>>

\* utterance.onend / onerror of an utterance that cancel() took off the queue
UtteranceCancelled ==
    /\ synth.notice
    /\ synth' = [synth EXCEPT !.notice = FALSE]
    /\ status' = [status EXCEPT !.speaking = FALSE]
    /\ lastEvent' = Event("utterance.cancelled", <<>>, <<>>)
    /\ UNCHANGED <<messages, input, listeningTranscript, micSupported, lastSpokenId,
                   hasRecognition, recognition, sessions, hasSynthesis,
                   readyPending, effectPending, spoken, failed>>

\* const stopSpeaking = useCallback(...)
StopSpeaking ==
    /\ \E speaking \in SpeakingReadings :
          IF speaking
          THEN /\ synth' = cancel(synth)
               /\ status' = [status EXCEPT !.speaking = FALSE]
          ELSE UNCHANGED <<synth, status>>
    /\ lastEvent' = Event("stopSpeaking", <<>>, <<>>)
    /\ UNCHANGED <<messages, input, listeningTranscript, micSupported, lastSpokenId,
                   hasRecognition, recognition, sessions, hasSynthesis,
                   readyPending, effectPending, spoken, failed>>

\* useEffect(() => {...}, [messages, speak]), run for a render of shown:
\* the newest message is spoken when it is the assistant's and was not yet
speakNewest(shown) ==
    LET last == shown[Len(shown)]
    IN  IF last.role = "assistant" /\ last.id # lastSpokenId
        THEN /\ lastSpokenId' = last.id
             /\ speak(last)
        ELSE UNCHANGED <<lastSpokenId, synth, spoken>>

\* the effect of a render that React scheduled for a change of messages made
\* outside its own events (a recognition result); the render takes in every
\* change made until it runs
SpeakEffect ==
    /\ effectPending
    /\ effectPending' = FALSE
    /\ speakNewest(messages)
    /\ lastEvent' = Event("speakEffect", <<>>, <<>>)
    /\ UNCHANGED <<messages, input, listeningTranscript, micSupported, status,
                   hasRecognition, recognition, sessions, hasSynthesis,
                   readyPending, failed>>

----------------------------------------------------------------------------
(* The submission path. *)

\* processUserInput with raw where it uses trimmed
processRaw(prev, raw) ==
    IF trim(raw) = <<>> THEN prev
    ELSE LET userMessage      == createMessage("user", raw, prev)
             withUser         == Append(prev, userMessage)
             assistantReply   == generateResponse(raw, withUser)
             assistantMessage == createMessage("assistant", assistantReply, withUser)
         IN  Append(withUser, assistantMessage)

\* const processUserInput = useCallback((raw) => ...): the messages it leaves
processUserInput(prev, raw) ==
    LET trimmed == trim(raw)
    IN  IF trimmed = <<>> THEN prev
        ELSE LET userMessage      == createMessage("user", trimmed, prev)
                 withUser         == Append(prev, userMessage)
                 assistantReply   == generateResponse(trimmed, withUser)
                 assistantMessage == createMessage("assistant", assistantReply, withUser)
             IN  Append(withUser, assistantMessage)

\* onChange={(event) => setInput(event.target.value)}
ChangeInput ==
    /\ \E value \in TypedTexts : input' = value
    /\ lastEvent' = Event("onChange", <<>>, <<>>)
    /\ UNCHANGED <<messages, listeningTranscript, micSupported, status, lastSpokenId,
                   hasRecognition, recognition, sessions, hasSynthesis, synth,
                   readyPending, effectPending, spoken, failed>>

\* const handleSubmit = useCallback((event) => ...).  A submit is a discrete
\* event: React renders the change and runs the effects of that render before
\* the event is over.
handleSubmit ==
    /\ LET trimmed == trim(input)
       IN  IF trimmed = <<>>
           THEN UNCHANGED <<messages, input, effectPending, lastSpokenId, synth, spoken>>
           ELSE /\ CanSubmit
                /\ messages' = processUserInput(messages, trimmed)
                /\ input' = <<>>
                /\ speakNewest(messages')
                /\ effectPending' = FALSE
    /\ lastEvent' = Event("handleSubmit", input, <<>>)
    /\ UNCHANGED <<listeningTranscript, micSupported, status, hasRecognition,
                   recognition, sessions, hasSynthesis, readyPending, failed>>

----------------------------------------------------------------------------
(* SpeechRecognition and the handlers that use it. *)

\* recognition.start(): begins a session, and throws when one has begun
start(phase) ==
    IF phase = "idle"
    THEN [phase |-> "starting", began |-> 1, thrown |-> FALSE]
    ELSE [phase |-> phase, began |-> 0, thrown |-> TRUE]

\* recognition.stop(): the session stops listening and ends later
stop(phase) ==
    IF phase \in {"starting", "active"} THEN "stopping" ELSE phase

\* recognition.start() outside a try block: what it throws escapes
startUncaught(phase) ==
    LET outcome == start(phase)
    IN  [phase |-> outcome.phase, began |-> outcome.began, escaped |-> outcome.thrown]

\* try { recognitionRef.current.start(); } catch { }
tryStart(phase) ==
    LET outcome == start(phase)
    IN  [phase |-> outcome.phase, began |-> outcome.began, escaped |-> FALSE]

\* const toggleMicrophone = useCallback(...)
toggleMicrophone ==
    /\ IF ~micSupported \/ ~hasRecognition
       THEN UNCHANGED <<recognition, sessions, synth, failed>>
       ELSE IF status.listening
       THEN /\ recognition' = stop(recognition)
            /\ UNCHANGED <<sessions, synth, failed>>
       ELSE /\ \E speaking \in SpeakingReadings :
                  synth' = IF speaking THEN cancel(synth) ELSE synth
            /\ LET started == tryStart(recognition)
               IN  /\ recognition' = started.phase
                   /\ sessions' = sessions + started.began
                   /\ failed' = (failed \/ started.escaped)
    /\ lastEvent' = Event("toggleMicrophone", <<>>, <<>>)
    /\ UNCHANGED <<messages, input, listeningTranscript, micSupported, status,
                   lastSpokenId, hasRecognition, hasSynthesis, readyPending,
                   effectPending, spoken>>

\* window.setTimeout(() => setMicSupported(true), 0)
MicReady ==
    /\ readyPending
    /\ readyPending' = FALSE
    /\ micSupported' = TRUE
    /\ lastEvent' = Event("readyTimeout", <<>>, <<>>)
    /\ UNCHANGED <<messages, input, listeningTranscript, status, lastSpokenId,
                   hasRecognition, recognition, sessions, hasSynthesis, synth,
                   effectPending, spoken, failed>>

\* recognition.onstart
onstart ==
    /\ recognition = "starting"
    /\ recognition' = "active"
    /\ status' = [status EXCEPT !.listening = TRUE]
    /\ listeningTranscript' = <<>>
    /\ lastEvent' = Event("recognition.onstart", <<>>, <<>>)
    /\ UNCHANGED <<messages, input, micSupported, lastSpokenId, hasRecognition,
                   sessions, hasSynthesis, synth, readyPending, effectPending,
                   spoken, failed>>

\* recognition.onend: the session is over
onend ==
    /\ recognition \in {"active", "stopping", "ending"}
    /\ recognition' = "idle"
    /\ sessions' = sessions - 1
    /\ status' = [status EXCEPT !.listening = FALSE]
    /\ listeningTranscript' = <<>>
    /\ lastEvent' = Event("recognition.onend", <<>>, <<>>)
    /\ UNCHANGED <<messages, input, micSupported, lastSpokenId, hasRecognition,
                   hasSynthesis, synth, readyPending, effectPending, spoken, failed>>

\* recognition.onerror: the session failed, and its onend follows
onerror ==
    /\ recognition \in {"starting", "active", "stopping"}
    /\ recognition' = "ending"
    /\ status' = [status EXCEPT !.listening = FALSE]
    /\ listeningTranscript' = <<>>
    /\ lastEvent' = Event("recognition.onerror", <<>>, <<>>)
    /\ UNCHANGED <<messages, input, micSupported, lastSpokenId, hasRecognition,
                   sessions, hasSynthesis, synth, readyPending, effectPending,
                   spoken, failed>>

\* the for loop of recognition.onresult: the pieces of one kind, concatenated
RECURSIVE pieces(_, _)
pieces(results, final) ==
    IF results = <<>> THEN <<>>
    ELSE (IF results[1].isFinal = final THEN results[1].transcript ELSE <<>>)
         \o pieces(Tail(results), final)

\* the final and the interim pieces together
everyTranscript(results) ==
    pieces(results, TRUE) \o pieces(results, FALSE)

\* finalTranscript, as the for loop of recognition.onresult leaves it
finalTranscript(results) ==
    pieces(results, TRUE)

\* recognition.onresult, for the results from event.resultIndex on
onresult ==
    /\ recognition \in {"active", "stopping"}
    /\ \E results \in ResultLists :
          /\ listeningTranscript' = trim(pieces(results, FALSE))
          /\ IF trim(finalTranscript(results)) # <<>>
             THEN /\ CanSubmit
                  /\ recognition' = stop(recognition)
                  /\ messages' = processUserInput(messages, finalTranscript(results))
                  /\ effectPending' = TRUE
             ELSE UNCHANGED <<recognition, messages, effectPending>>
          /\ lastEvent' = Event("recognition.onresult", <<>>, results)
    /\ UNCHANGED <<input, micSupported, status, lastSpokenId, hasRecognition,
                   sessions, hasSynthesis, synth, readyPending, spoken, failed>>

----------------------------------------------------------------------------
(* The component after it has mounted, and its steps. *)

ComposeIdle ==
    /\ cText = <<>>
    /\ cHistory = <<>>
    /\ cReply = <<>>
    /\ cDone = FALSE

\* the state once Home has rendered and its three effects have run
Init ==
    /\ messages = INITIAL_MESSAGES
    /\ input = <<>>
    /\ listeningTranscript = <<>>
    /\ micSupported = FALSE
    /\ status = [listening |-> FALSE, speaking |-> FALSE]
    /\ hasRecognition \in BOOLEAN
    /\ hasSynthesis \in BOOLEAN
    /\ recognition = "idle"
    /\ sessions = 0
    /\ readyPending = hasRecognition
    /\ lastSpokenId = INITIAL_MESSAGES[1].id
    /\ synth = IF hasSynthesis
               THEN cancelThenSpeak(EmptySynth, Utterance(INITIAL_MESSAGES[1]))
               ELSE EmptySynth
    /\ spoken = IF hasSynthesis THEN <<INITIAL_MESSAGES[1].id>> ELSE <<>>
    /\ effectPending = FALSE
    /\ failed = FALSE
    /\ lastEvent = Event("mount", <<>>, <<>>)
    /\ ComposeIdle

Next ==
    \/ ChangeInput /\ UNCHANGED composeVars
    \/ handleSubmit /\ UNCHANGED composeVars
    \/ toggleMicrophone /\ UNCHANGED composeVars
    \/ StopSpeaking /\ UNCHANGED composeVars
    \/ MicReady /\ UNCHANGED composeVars
    \/ onstart /\ UNCHANGED composeVars
    \/ onend /\ UNCHANGED composeVars
    \/ onerror /\ UNCHANGED composeVars
    \/ onresult /\ UNCHANGED composeVars
    \/ SpeakEffect /\ UNCHANGED composeVars
    \/ UtteranceStart /\ UNCHANGED composeVars
    \/ UtteranceEnd /\ UNCHANGED composeVars
    \/ UtteranceError /\ UNCHANGED composeVars
    \/ UtteranceCancelled /\ UNCHANGED composeVars

Spec ==
    Init /\ [][Next]_vars

----------------------------------------------------------------------------
(* generateResponse on its own: every set of categories, asked and stated. *)

CategoryOrder ==
    <<"stress", "confusion", "decision", "planning", "blockers", "timeline",
      "assumptions">>

\* one phrase of each category, as a user may write it
Phrase ==
    [ stress |-> <<"S","t","r","e","s","s","e","d">>,   \* Stressed
      confusion |-> <<"n","o","t"," ","s","u","r","e">>,   \* not sure
      decision |-> <<"o","p","t","i","o","n","s">>,   \* options
      planning |-> <<"r","o","a","d","m","a","p">>,   \* roadmap
      blockers |-> <<"c","a","n","'","t">>,   \* can't
      timeline |-> <<"d","u","e">>,   \* due
      assumptions |-> <<"n","e","v","e","r">> ]   \* never

\* what comes before and after the phrases: a statement, a question by its
\* first word, a question by its mark, a first word that only begins like an
\* interrogative, and an interrogative in capitals behind white space
Frames ==
    { [before |-> <<"s","o"," ">>, after |-> <<>>],
      [before |-> <<"H","o","w"," ">>, after |-> <<>>],
      [before |-> <<>>, after |-> <<"?">>],
      [before |-> <<"h","o","w","e","v","e","r"," ">>, after |-> <<>>],
      [before |-> <<" ","\t","I","S"," ">>, after |-> <<" ">>] }

RECURSIVE phrasesFrom(_, _)
phrasesFrom(categories, k) ==
    IF k > Len(CategoryOrder) THEN <<>>
    ELSE (IF CategoryOrder[k] \in categories
          THEN Phrase[CategoryOrder[k]] \o <<" ">>
          ELSE <<>>)
         \o phrasesFrom(categories, k + 1)

\* "I'm so stressed and confused about this"
Example1 ==
    <<"I","'","m"," ","s","o"," ","s","t","r","e","s","s","e","d"," ","a","n","d"," ","c","o","n","f","u","s","e","d"," ","a","b","o","u","t"," ","t","h","i","s">>
\* "I need to figure out dinner"
Example2 ==
    <<"I"," ","n","e","e","d"," ","t","o"," ","f","i","g","u","r","e"," ","o","u","t"," ","d","i","n","n","e","r">>
\* "should I choose option A or B, it's urgent"
Example3 ==
    <<"s","h","o","u","l","d"," ","I"," ","c","h","o","o","s","e"," ","o","p","t","i","o","n"," ","A"," ","o","r"," ","B",","," ","i","t","'","s"," ","u","r","g","e","n","t">>
\* "What should I do about my deadline tomorrow?"
Example4 ==
    <<"W","h","a","t"," ","s","h","o","u","l","d"," ","I"," ","d","o"," ","a","b","o","u","t"," ","m","y"," ","d","e","a","d","l","i","n","e"," ","t","o","m","o","r","r","o","w","?">>
\* "   "
Example5 ==
    <<" "," "," ">>

ExampleTexts ==
    {Example1, Example2, Example3, Example4, Example5}

ComposeTexts ==
    ExampleTexts \cup
    { frame.before \o phrasesFrom(categories, 1) \o frame.after :
        frame \in Frames, categories \in SUBSET {CategoryOrder[k] : k \in DOMAIN CategoryOrder} }

RECURSIVE historyOf(_)
historyOf(roles) ==
    IF roles = <<>> THEN <<>>
    ELSE LET earlier == historyOf(SubSeq(roles, 1, Len(roles) - 1))
         IN  Append(earlier, createMessage(roles[Len(roles)], <<"x">>, earlier))

Histories ==
    { historyOf(roles) :
        roles \in UNION { [1..n -> {"user", "assistant"}] : n \in 0..MaxPrior } }

InitCompose ==
    /\ messages = INITIAL_MESSAGES
    /\ input = <<>>
    /\ listeningTranscript = <<>>
    /\ micSupported = FALSE
    /\ status = [listening |-> FALSE, speaking |-> FALSE]
    /\ hasRecognition = FALSE
    /\ hasSynthesis = FALSE
    /\ recognition = "idle"
    /\ sessions = 0
    /\ readyPending = FALSE
    /\ lastSpokenId = INITIAL_MESSAGES[1].id
    /\ synth = EmptySynth
    /\ spoken = <<>>
    /\ effectPending = FALSE
    /\ failed = FALSE
    /\ lastEvent = Event("mount", <<>>, <<>>)
    /\ cText \in ComposeTexts
    /\ cHistory \in Histories
    /\ cReply = <<>>
    /\ cDone = FALSE

\* one call of generateResponse
Respond ==
    /\ ~cDone
    /\ cReply' = generateResponse(cText, cHistory)
    /\ cDone' = TRUE
    /\ UNCHANGED <<cText, cHistory, appVars>>

NextCompose ==
    Respond

SpecCompose ==
    InitCompose /\ [][NextCompose]_vars

----------------------------------------------------------------------------
(* What the claims speak of. *)

\* a text of white space only, the empty text included
IsBlank(text) ==
    \A i \in DOMAIN text : text[i] \in WhiteSpace

\* the transcripts of the final results of a result list, in their order
FinalText(results) ==
    LET finals == SelectSeq(results, LAMBDA r : r.isFinal)
        upTo[n \in 0..Len(finals)] ==
            IF n = 0 THEN <<>> ELSE upTo[n - 1] \o finals[n].transcript
    IN  upTo[Len(finals)]

\* the text a handler hands to the submission path
SubmittedText(event) ==
    IF event.op = "handleSubmit" THEN event.text
    ELSE IF event.op = "recognition.onresult" THEN FinalText(event.results)
    ELSE <<>>

IsSubmission(event) ==
    event.op \in {"handleSubmit", "recognition.onresult"}

\* later is earlier with the exchange for text appended: the user's message,
\* then the reply composed for it and the history that ends with it
ExtendsByExchange(earlier, later, text) ==
    /\ Len(later) = Len(earlier) + 2
    /\ SubSeq(later, 1, Len(earlier)) = earlier
    /\ later[Len(earlier) + 1].role = "user"
    /\ later[Len(earlier) + 1].content = text
    /\ later[Len(earlier) + 2].role = "assistant"
    /\ later[Len(earlier) + 2].content
           = generateResponse(text, SubSeq(later, 1, Len(earlier) + 1))

\* C1: a submission whose trimmed text is not empty appends exactly the user's
\* message with the trimmed text and then the assistant's reply to it; every
\* other step leaves the conversation as it is, so earlier messages keep
\* their place, role and content.
C1_SubmissionAppendsExchange ==
    [][ IF IsSubmission(lastEvent') /\ ~IsBlank(SubmittedText(lastEvent'))
        THEN ExtendsByExchange(messages, messages', trim(SubmittedText(lastEvent')))
        ELSE messages' = messages ]_vars

\* a typed submission and a transcript have each appended their exchange
C1_Witness ==
    /\ Len(messages) = 5
    /\ messages[2].role = "user"
    /\ messages[2].content = <<"P", "l", "a", "n">>
    /\ messages[3].role = "assistant"
    /\ messages[4].content = <<"s", "o", "o", "n">>
    /\ lastEvent.op = "recognition.onresult"
    /\ lastEvent.results = FinalThenInterim

\* C2: a blank submission, typed or transcribed, changes nothing: no message
\* is created, no speech is requested or scheduled, no handler fails.
C2_BlankSubmissionIgnored ==
    [][ (IsSubmission(lastEvent') /\ IsBlank(SubmittedText(lastEvent')))
        => /\ messages' = messages
           /\ effectPending' = effectPending
           /\ spoken' = spoken
           /\ synth' = synth
           /\ failed' = FALSE ]_vars

\* white space was typed and submitted after an exchange, and nothing came of it
C2_Witness ==
    /\ lastEvent = Event("handleSubmit", TypedBlank, <<>>)
    /\ Len(messages) = 3
    /\ ~effectPending
    /\ input = TypedBlank

\* C3: no capture session is active while an utterance is being spoken.
C3_CaptureExcludesPlayback ==
    ~(recognition = "active" /\ synth.playing)

\* C4: the synthesis queue never holds more than one utterance, and the one it
\* holds is the one requested last.
C4_OneUtterance ==
    /\ Len(synth.queue) <= 1
    /\ synth.queue # <<>> =>
           /\ spoken # <<>>
           /\ synth.queue[1].id = spoken[Len(spoken)]

\* a reply was requested while another utterance was queued; it is the one spoken
C4_Witness ==
    /\ Len(spoken) = 3
    /\ synth.playing
    /\ synth.notice
    /\ synth.queue[1].id = spoken[3]

\* C5: a result with a final transcript that is not blank submits exactly that
\* final text, once, and stops the capture; any other result, and the end,
\* the failure or the stopping of the capture, submits nothing, so interim text
\* never reaches the conversation.
C5_FinalSubmittedOnce ==
    [][ /\ lastEvent'.op = "recognition.onresult" =>
              IF ~IsBlank(FinalText(lastEvent'.results))
              THEN /\ ExtendsByExchange(messages, messages',
                                        trim(FinalText(lastEvent'.results)))
                   /\ recognition' = "stopping"
              ELSE messages' = messages
        /\ lastEvent'.op \in {"recognition.onend", "recognition.onerror",
                              "recognition.onstart", "toggleMicrophone"} =>
              messages' = messages
        /\ lastEvent'.op \in {"recognition.onend", "recognition.onerror"} =>
              listeningTranscript' = <<>> ]_vars

\* a result carried "soon " as final and "stuck" as interim: "soon" was
\* submitted, "stuck" is on display, and the capture is stopping
C5_Witness ==
    /\ lastEvent.op = "recognition.onresult"
    /\ lastEvent.results = FinalThenInterim
    /\ recognition = "stopping"
    /\ listeningTranscript = <<"s", "t", "u", "c", "k">>
    /\ messages[Len(messages) - 1].content = <<"s", "o", "o", "n">>

\* C6: once the speak effect has run, every assistant message appended to the
\* conversation has been handed to speech output exactly once.
C6_EveryReplySpokenOnce ==
    (hasSynthesis /\ ~effectPending) =>
        \A i \in 2..Len(messages) :
            messages[i].role = "assistant" =>
                Cardinality({k \in DOMAIN spoken : spoken[k] = messages[i].id}) = 1

\* C7: there is never more than one capture session and no handler fails; a
\* toggle without the capability changes nothing, and one that finds a
\* session begun while the listening flag is still off leaves the
\* conversation, the flags and the session as they are.
C7_ToggleNeverDoubles ==
    /\ [](sessions <= 1 /\ ~failed)
    /\ [][ lastEvent'.op = "toggleMicrophone" =>
             /\ (~micSupported \/ ~hasRecognition) =>
                    UNCHANGED <<messages, status, recognition, sessions, synth,
                                spoken, listeningTranscript, input, failed>>
             /\ (~status.listening /\ recognition # "idle") =>
                    /\ messages' = messages
                    /\ status' = status
                    /\ recognition' = recognition
                    /\ sessions' = sessions
                    /\ failed' = FALSE ]_vars

\* the toggle was pressed while a failed session had yet to end: the listening
\* flag was off, so it took the start path, and the session is as it was
C7_Witness ==
    /\ lastEvent.op = "toggleMicrophone"
    /\ recognition = "ending"
    /\ ~status.listening
    /\ sessions = 1
    /\ micSupported

----------------------------------------------------------------------------
(* What the claims about generateResponse speak of. *)

\* the k-th sentence of a reply: two tokens, and one space between sentences
SentenceAt(reply, k) ==
    SubSeq(reply, 3 * k - 2, 3 * k - 1)

LastSentence(reply) ==
    SubSeq(reply, Len(reply) - 1, Len(reply))

SentenceCount(reply) ==
    Cardinality({i \in DOMAIN reply : reply[i] \in {".", "?"}})

HasSentence(reply, sentence) ==
    \E k \in 1..SentenceCount(reply) : SentenceAt(reply, k) = sentence

\* the category that outranks the others set: decision, planning, blockers,
\* is_question, and the default when none is
TopCategory(f) ==
    CASE f.decisionFocused -> "decision"
      [] ~f.decisionFocused /\ f.planningFocused -> "planning"
      [] ~f.decisionFocused /\ ~f.planningFocused /\ f.blockerPresent -> "blockers"
      [] ~f.decisionFocused /\ ~f.planningFocused /\ ~f.blockerPresent /\ f.isQuestion
            -> "question"
      [] OTHER -> "default"

BodyFor ==
    [ decision |-> DecisionBody, planning |-> PlanningBody, blockers |-> BlockerBody,
      question |-> QuestionBody, default |-> DefaultBody ]

FollowUpFor ==
    [ decision |-> DecisionFollowUp, planning |-> PlanningFollowUp,
      blockers |-> BlockerFollowUp, question |-> QuestionFollowUp,
      default |-> DefaultFollowUp ]

\* C8: the second sentence of the reply is the body sentence of the
\* highest-ranking category set, and the reply closes with the follow-up
\* question of that same category; with decision, timeline and is_question set
\* the body is the decision sentence, the timing sentence is there, and the
\* follow-up is "Which outcome matters most for you right now?".
C8_BodyAndFollowUpAgree ==
    cDone =>
        LET f == classify(cText)
        IN  /\ SentenceAt(cReply, 2) = BodyFor[TopCategory(f)]
            /\ LastSentence(cReply) = FollowUpFor[TopCategory(f)]
            /\ (f.decisionFocused /\ f.underDeadline /\ f.isQuestion) =>
                   /\ SentenceAt(cReply, 2) = DecisionBody
                   /\ HasSentence(cReply, TimingSentence)
                   /\ LastSentence(cReply)
                          = <<"Which outcome matters most for you right now", "?">>

\* "should I choose option A or B, it's urgent" has been answered
C8_Witness ==
    /\ cDone
    /\ cText = Example3
    /\ classify(cText).decisionFocused
    /\ classify(cText).underDeadline
    /\ classify(cText).isQuestion
    /\ SentenceCount(cReply) = 4

\* C9: the reply opens with the stress sentence when stress is set, confusion
\* set or not; with the focus sentence when confusion alone is set; with the
\* thanks otherwise, whatever the other flags and the history are.
C9_OpeningByPriority ==
    cDone =>
        LET f == classify(cText)
            opening == SentenceAt(cReply, 1)
        IN  /\ f.stressed => opening = <<"I can hear the pressure in that", ".">>
            /\ (~f.stressed /\ f.confused)
                   => opening = <<"Alright, let's bring this into focus", ".">>
            /\ (~f.stressed /\ ~f.confused)
                   => opening = <<"Thanks for trusting me with that", ".">>

\* "I'm so stressed and confused about this" has been answered, not as a
\* first message
C9_Witness ==
    /\ cDone
    /\ cText = Example1
    /\ classify(cText).stressed
    /\ classify(cText).confused
    /\ Len(cHistory) = MaxPrior
    /\ SentenceAt(cReply, 1) = StressOpening

\* C10: the reply always closes with the follow-up question, so it ends with
\* "?", has three to five sentences, and is what the same text gets with an
\* empty history.
C10_FollowUpAlwaysAppended ==
    cDone =>
        /\ cReply[Len(cReply)] = "?"
        /\ LastSentence(cReply) = FollowUpFor[TopCategory(classify(cText))]
        /\ SentenceCount(cReply) \in 3..5
        /\ cReply = generateResponse(cText, <<>>)

\* "What should I do about my deadline tomorrow?" has been answered after two
\* user messages: no clarifier is needed, and the question is there
C10_Witness ==
    /\ cDone
    /\ cText = Example4
    /\ Cardinality({i \in DOMAIN cHistory : cHistory[i].role = "user"}) = 2
    /\ ~needsClarifier(classify(cText), cHistory)
    /\ LastSentence(cReply) = QuestionFollowUp
    /\ SentenceCount(cReply) = 4

====
